---- MODULE Spec2Model ----
(***************************************************************************)
(* A model of src/io_helper.h: the k-mer key codec                         *)
(* (ConstantLengthKmerHelper::convert), the group partitioner              *)
(* (splitgrp / combgrp) and the buffered binary record stream              *)
(* (BinaryKmerWriter / BinaryKmerReader).                                  *)
(*                                                                         *)
(* Three specifications share the module's variables:                      *)
(*   Spec          the writer fills a container, the reader reads it back  *)
(*   SpecCodec     convert applied to a text line                          *)
(*   SpecPartition splitgrp / combgrp applied to a key or a pair           *)
(* Unsigned integers of the key type are sets of bit positions (bit i is   *)
(* set iff i is in the set), so that 64-bit keys keep their width.         *)
(***************************************************************************)
EXTENDS Integers, Sequences, FiniteSets, TLC

VARIABLES
    \* ---- BinaryKmerWriter and its container
    input,      \* the records the caller will pass to write(), in order
    nw,         \* number of write() calls made so far
    wbuf,       \* BinaryKmerWriter::buf (the slots written so far)
    wcurr,      \* BinaryKmerWriter::curr
    wcloses,    \* number of fclose(f) calls made by finish()
    file,       \* the records the container holds
    bulk,       \* the record count of every fwrite issued by write()
    \* ---- BinaryKmerReader
    rstate,     \* "none" before construction, "open" after
    rpos,       \* read position of the reader's FILE, in records
    rbuf,       \* BinaryKmerReader::buf (the slots filled so far)
    rcurr,      \* BinaryKmerReader::curr
    rmax,       \* BinaryKmerReader::max
    out,        \* the caller's record *ret
    ret,        \* what the last getNext call returned: "none", "true", "false"
    last,       \* the path of the last getNext call: "none", "copy", "eof"
    got,        \* every record getNext copied into *ret, in order
    eofSeen,    \* a getNext call has returned false on a refill of zero records
    post,       \* number of getNext calls made after that
    \* ---- ConstantLengthKmerHelper::convert
    line,       \* the characters of the line char *s, before the terminating NUL
    kw,         \* width of keyType, in bits
    kOut,       \* the caller's key *k
    vOut,       \* the caller's value *v
    cret,       \* what convert returned: "none" before the call, "true", "false"
    cvariant,   \* the overload called: "none", "kv" (s,k,v) or "k" (s,k)
    \* ---- ConstantLengthKmerHelper::splitgrp / combgrp
    pw,         \* width of keyType, in bits
    kmerlength, \* ConstantLengthKmerHelper::kmerlength
    splitbit,   \* ConstantLengthKmerHelper::splitbit
    key,        \* the caller's keyType key
    grp,        \* the caller's uint32_t grp
    keyInGroup, \* the caller's keyType keyInGroup
    orig,       \* key, grp and keyInGroup before the first call
    pmode,      \* "key": splitgrp then combgrp; "pair": combgrp then splitgrp
    shiftUB,    \* what this build does with a shift count of the full width
    pstep,      \* number of calls made
    \* ---- object lifetimes and the container's trailing bytes
    tail,       \* bytes of the container after its last whole record
    wdead,      \* the BinaryKmerWriter was destroyed
    rcloses,    \* number of fclose(f) calls made on the reader's handle
    rdead,      \* the BinaryKmerReader was destroyed
    \* ---- KmerFileReader
    tpath,      \* the fname passed to the constructor
    topened,    \* the path the constructor passed to fopen
    tf,         \* KmerFileReader::f: "none" before the constructor, then
                \* "open" or "null" (fopen failed)
    tcloses,    \* number of fclose(f) calls made on the handle
    tdead,      \* the KmerFileReader was destroyed
    tfile,      \* the characters of the text file
    tpos,       \* read position of the FILE, in characters
    tk,         \* the caller's key *T
    tv,         \* the caller's value *V
    tret,       \* what the last getNext returned: "none", "true", "false"
    tlast,      \* the path of the last getNext: "none", "eof", "record", "reject"
    ttrunc,     \* the last fgets filled the buffer before the end of the line
    tfailed,    \* a line has failed to parse
    tnull,      \* a stdio function was called with the null handle
    toob,       \* the constructor accessed buf[-1]
    \* ---- human
    hword,      \* the argument of human()
    hout        \* the string human() returned, empty before the call

lifeVars == <<tail, wdead, rcloses, rdead>>

streamVars == <<input, nw, wbuf, wcurr, wcloses, file, bulk,
                rstate, rpos, rbuf, rcurr, rmax, out, ret, last, got, eofSeen, post,
                lifeVars>>

textVars == <<tpath, topened, tf, tcloses, tdead, tfile, tpos, tk, tv, tret, tlast,
             ttrunc, tfailed, tnull, toob>>

humanVars == <<hword, hout>>

codecVars == <<line, kw, kOut, vOut, cret, cvariant>>

partVars == <<pw, kmerlength, splitbit, key, grp, keyInGroup, orig, pmode,
             shiftUB, pstep>>

vars == <<streamVars, codecVars, partVars, textVars, humanVars>>

\* ------------------------------------------------------------------ bounds

\* static const int buflen = 16 (reader and writer)
buflen == 16
\* KVpair buf[1024]
BufSlots == 1024
\* containers of 0..MaxRecords records, and of 10*buflen records
MaxRecords == 18
\* getNext calls made after end of stream
MaxPostEof == 3
\* finish() calls made on one writer
MaxFinish == 2

\* ------------------------------------------------------------------ records

\* A slot of a buffer that was never written.
Uninit == [k |-> -1, v |-> -1]

\* What reading a never-written slot can yield.
Garbage == {[k |-> 0, v |-> 0], Uninit}

Lens == (0 .. MaxRecords) \cup {10 * buflen}

\* M records, all different.
Distinct(M) == [i \in 1 .. M |-> [k |-> i, v |-> i % 3]]

\* M records, all equal.
Same(M) == [i \in 1 .. M |-> [k |-> 7, v |-> 1]]

\* M records, runs of two equal neighbours.
Pairs(M) == [i \in 1 .. M |-> [k |-> (i + 1) \div 2, v |-> 0]]

Inputs == {Distinct(M) : M \in Lens} \cup {Same(M) : M \in Lens}
            \cup {Pairs(M) : M \in Lens}

Min(a, b) == IF a <= b THEN a ELSE b

\* buf[i], for a buffer held as the function of its written slots
Slot(b, i) == IF i \in DOMAIN b THEN b[i] ELSE Uninit

\* memcpy(&buf[i], p, sizeof(buf[i]))
Store(b, i, p) == [j \in (DOMAIN b) \cup {i} |-> IF j = i THEN p ELSE b[j]]

\* fwrite(buf, sizeof(buf[0]), n, f): the n records appended to the container
FWrite(b, n) == [i \in 1 .. n |-> Slot(b, i - 1)]

\* fread(buf, sizeof(buf[0]), n, f): the number of whole records read
FReadCount(n, f, pos) == Min(n, Len(f) - pos)

\* fread(buf, sizeof(buf[0]), n, f): buf after the read
FReadFill(b, n, f, pos) ==
    [j \in (DOMAIN b) \cup (0 .. FReadCount(n, f, pos) - 1) |->
        IF j < FReadCount(n, f, pos) THEN f[pos + j + 1] ELSE b[j]]

\* The stream when a specification of another component runs.
StreamIdle ==
    /\ input = <<>>
    /\ nw = 0
    /\ wbuf = [j \in {} |-> Uninit]
    /\ wcurr = 0
    /\ wcloses = 0
    /\ file = <<>>
    /\ bulk = <<>>
    /\ rstate = "none"
    /\ rpos = 0
    /\ rbuf = [j \in {} |-> Uninit]
    /\ rcurr = 0
    /\ rmax = 0
    /\ out = Uninit
    /\ ret = "none"
    /\ last = "none"
    /\ got = <<>>
    /\ eofSeen = FALSE
    /\ post = 0
    /\ tail = 0
    /\ wdead = FALSE
    /\ rcloses = 0
    /\ rdead = FALSE

\* The text reader when a specification of another component runs.
TextIdle ==
    /\ tpath = <<>>
    /\ topened = <<>>
    /\ tf = "none"
    /\ tcloses = 0
    /\ tdead = FALSE
    /\ tfile = <<>>
    /\ tpos = 0
    /\ tk = {}
    /\ tv = 0
    /\ tret = "none"
    /\ tlast = "none"
    /\ ttrunc = FALSE
    /\ tfailed = FALSE
    /\ tnull = FALSE
    /\ toob = FALSE

\* human() when a specification of another component runs.
HumanIdle ==
    /\ hword = 0
    /\ hout = <<>>

\* The codec when a specification of another component runs.
CodecIdle ==
    /\ line = <<>>
    /\ kw = 0
    /\ kOut = {}
    /\ vOut = 0
    /\ cret = "none"
    /\ cvariant = "none"

\* The partitioner when a specification of another component runs.
PartIdle ==
    /\ pw = 0
    /\ kmerlength = 0
    /\ splitbit = 0
    /\ key = {}
    /\ grp = {}
    /\ keyInGroup = {}
    /\ orig = [key |-> {}, grp |-> {}, kig |-> {}]
    /\ pmode = "none"
    /\ shiftUB = "wrap"
    /\ pstep = 0

\* ------------------------------------------------------------------ integers

\* The unsigned integer types a key can be.
KeyWidths == {8, 16, 32, 64}

Bits(w) == 0 .. w - 1

\* x << n in an unsigned type of w bits (n < w)
ShlBits(S, n, w) == {i + n : i \in {j \in S : j + n < w}}

\* x >> n (n less than the width)
ShrBits(S, n) == {i - n : i \in {j \in S : j >= n}}

\* x + 1 in an unsigned type of w bits
IncBits(S, w) ==
    LET z == CHOOSE z \in 0 .. w : z \notin S /\ \A j \in 0 .. z - 1 : j \in S
    IN  {i \in S : i > z} \cup (IF z < w THEN {z} ELSE {})

\* x - 1 in an unsigned type of w bits
DecBits(S, w) ==
    IF S = {} THEN Bits(w)
    ELSE LET z == CHOOSE z \in S : \A j \in S : z <= j
         IN  (S \ {z}) \cup (0 .. z - 1)

\* the number a set of bit positions stands for (fewer than 31 bits)
RECURSIVE ToNat(_)
ToNat(S) ==
    IF S = {} THEN 0
    ELSE LET z == CHOOSE z \in S : \A j \in S : z <= j
         IN  2 ^ z + ToNat(S \ {z})

\* ------------------------------------------------------------------ codec

\* longest run of symbols at the head of a line
MaxRun == 3
\* longest remainder of a line after the run
MaxRest == 3

Syms == {"A", "C", "G", "T"}
RestChars == {"a", " ", "0", "1", "-"}

Seqs(S, n) == UNION {[1 .. m -> S] : m \in 0 .. n}

\* The lines: a run of at most n symbols, then at most m characters that
\* are not symbols.
Lines(n, m) == {r \o t : r \in Seqs(Syms, n), t \in Seqs(RestChars, m)}

\* What the caller's outputs hold before the call.
Prior == [k |-> {0, 2}, v |-> 77]

\* What an int that was never assigned can hold.
GarbageInts == {0, 12345}

\* *s, for s pointing at character i of the line (the line ends with NUL)
CharAt(s, i) == IF i <= Len(s) THEN s[i] ELSE "NUL"

\* a switch that also accepts the lowercase letter
StartsRunAnyCase(c) == c \in {"A", "T", "G", "C", "a"}
\* switch (*s) { case 'A': case 'T': case 'G': case 'C':
StartsRun(c) == c = "A" \/ c = "T" \/ c = "G" \/ c = "C"

\* *s == 'A' || *s == 'C' || *s == 'T' || *s == 'G'
InRun(c) == c = "A" \/ c = "C" \/ c = "T" \/ c = "G"

\* a switch whose cases end in break
BumpsBreak(c) == IF c = "T" \/ c = "G" \/ c = "C" THEN 1 ELSE 0
\* the number of ret++ the inner switch runs: case 'T' falls through to
\* case 'G', and that to case 'C'
Bumps(c) ==
    (IF c = "T" THEN 1 ELSE 0)
    + (IF c = "T" \/ c = "G" THEN 1 ELSE 0)
    + (IF c = "T" \/ c = "G" \/ c = "C" THEN 1 ELSE 0)

RECURSIVE IncTimes(_, _, _)
IncTimes(r, n, w) == IF n = 0 THEN r ELSE IncTimes(IncBits(r, w), n - 1, w)

\* a loop that stops after the symbols a key of w bits can hold
RECURSIVE ScanRunCapped(_, _, _, _)
ScanRunCapped(s, i, r, w) ==
    IF InRun(CharAt(s, i)) /\ 2 * i <= w
    THEN ScanRunCapped(s, i + 1, IncTimes(ShlBits(r, 2, w), Bumps(CharAt(s, i)), w), w)
    ELSE [ret |-> r, i |-> i]

\* the while loop of convert: [ret, i] when it stops at character i
RECURSIVE ScanRun(_, _, _, _)
ScanRun(s, i, r, w) ==
    IF InRun(CharAt(s, i))
    THEN ScanRun(s, i + 1, IncTimes(ShlBits(r, 2, w), Bumps(CharAt(s, i)), w), w)
    ELSE [ret |-> r, i |-> i]

IsSpace(c) == c \in {" ", "\t", "\n"}
DigitChars == <<"0", "1", "2", "3", "4", "5", "6", "7", "8", "9">>
IsDigit(c) == \E d \in 1 .. 10 : DigitChars[d] = c
DigitVal(c) == (CHOOSE d \in 1 .. 10 : DigitChars[d] = c) - 1

RECURSIVE SkipSpace(_, _)
SkipSpace(s, i) == IF IsSpace(CharAt(s, i)) THEN SkipSpace(s, i + 1) ELSE i

RECURSIVE ScanDigits(_, _, _)
ScanDigits(s, i, acc) ==
    IF IsDigit(CharAt(s, i))
    THEN ScanDigits(s, i + 1, acc * 10 + DigitVal(CharAt(s, i)))
    ELSE acc

\* sscanf(s, "%d", &tv), s pointing at character i: n is the number of items
\* assigned, val the int stored when n = 1 (white space is skipped, then an
\* optional sign and the digits are read)
SScanD(s, i) ==
    LET j == SkipSpace(s, i)
        signed == CharAt(s, j) = "-" \/ CharAt(s, j) = "+"
        d == IF signed THEN j + 1 ELSE j
    IN  IF IsDigit(CharAt(s, d))
        THEN [n |-> 1,
              val |-> (IF CharAt(s, j) = "-" THEN -1 ELSE 1) * ScanDigits(s, d, 0)]
        ELSE [n |-> 0, val |-> 0]

\* valueType tv; sscanf(s, "%d", &tv): the values tv can hold afterwards
ScannedValues(s, i) ==
    IF SScanD(s, i).n = 1 THEN {SScanD(s, i).val} ELSE GarbageInts

InitCodec ==
    /\ line \in Lines(MaxRun, MaxRest)
    /\ kw = CHOOSE w \in KeyWidths : \A x \in KeyWidths : w <= x
    /\ kOut = Prior.k
    /\ vOut = Prior.v
    /\ cret = "none"
    /\ cvariant = "none"
    /\ StreamIdle
    /\ PartIdle
    /\ TextIdle
    /\ HumanIdle

\* bool convert(char *s, keyType *k, valueType *v), valueType being int
ConvertKV ==
    /\ cvariant = "none"
    /\ cvariant' = "kv"
    /\ IF StartsRun(CharAt(line, 1))
       THEN /\ kOut' = ScanRun(line, 1, {}, kw).ret
            /\ vOut' \in ScannedValues(line, ScanRun(line, 1, {}, kw).i)
            /\ cret' = "true"
       ELSE /\ cret' = "false"
            /\ UNCHANGED <<kOut, vOut>>
    /\ UNCHANGED <<line, kw, streamVars, partVars, textVars, humanVars>>

\* bool convert(char *s, keyType *k): the value goes to a local
ConvertK ==
    /\ cvariant = "none"
    /\ cvariant' = "k"
    /\ IF StartsRun(CharAt(line, 1))
       THEN /\ kOut' = ScanRun(line, 1, {}, kw).ret
            /\ cret' = "true"
       ELSE /\ cret' = "false"
            /\ UNCHANGED kOut
    /\ UNCHANGED <<line, kw, vOut, streamVars, partVars, textVars, humanVars>>

NextCodec == ConvertKV \/ ConvertK

SpecCodec == InitCodec /\ [][NextCodec]_vars

\* ------------------------------------------------------------------ partitioner

\* uint32_t grp
GrpBits == 32
\* every kmerlength up to MaxSmallL is tried, and the two largest of a width
MaxSmallL == 4
\* every value of at most SmallBits bits is tried
SmallBits == 8

\* Operands narrower than int are promoted to int (32 bits) before an
\* arithmetic operator is applied: the width the operator works in.
ArithWidth(w) == IF w < 32 THEN 32 ELSE w

\* A shift count that is negative, or the working width or more, is
\* undefined. What a build
\* does with it: "wrap", the count is taken modulo the width (x86, AArch64),
\* or "zero", every bit is shifted out (ARM32, a constant-folded shift).
ShiftModes == {"wrap", "zero"}

\* x >> n for x of a type of w bits
Shr(S, n, w, mode) ==
    IF 0 <= n /\ n < ArithWidth(w) THEN ShrBits(S, n)
    ELSE IF mode = "wrap" THEN ShrBits(S, n % ArithWidth(w)) ELSE {}

\* x <<= n for x of a type of w bits (the result is cut to w bits)
Shl(S, n, w, mode) ==
    IF 0 <= n /\ n < ArithWidth(w) THEN ShlBits(S, n, w)
    ELSE IF mode = "wrap" THEN ShlBits(S, n % ArithWidth(w), w) ELSE {}

\* The values of at most n bits that are tried as extremes.
Few(n) == {{}, Bits(n)} \cup {{i} : i \in Bits(n)}

\* The values of at most n bits that are tried.
Sample(n) == IF n <= SmallBits THEN SUBSET Bits(n) ELSE Few(n)

KmerLengths(w) == (0 .. Min(MaxSmallL, w \div 2)) \cup {w \div 2 - 1, w \div 2}

\* ConstantLengthKmerHelper(_kmerlength, _splitbit) with 0 <= splitbit <=
\* 2 * kmerlength <= width, and the caller's key (or pair) in range
InitPartition ==
    /\ pw \in KeyWidths
    /\ kmerlength \in KmerLengths(pw)
    /\ splitbit \in 0 .. 2 * kmerlength
    /\ pmode \in {"key", "pair"}
    /\ key \in (IF pmode = "key" THEN Sample(2 * kmerlength) ELSE {{}})
    /\ grp \in (IF pmode = "pair" THEN Few(Min(splitbit, GrpBits)) ELSE {{}})
    /\ keyInGroup \in (IF pmode = "pair" THEN Few(2 * kmerlength - splitbit) ELSE {{}})
    /\ shiftUB \in (IF 2 * kmerlength - splitbit >= ArithWidth(pw)
                    THEN ShiftModes ELSE {"wrap"})
    /\ orig = [key |-> key, grp |-> grp, kig |-> keyInGroup]
    /\ pstep = 0
    /\ StreamIdle
    /\ CodecIdle
    /\ TextIdle
    /\ HumanIdle

\* grp = high: the keyType value is cut to the 32 bits of grp
GrpOf(high) == high \cap Bits(GrpBits)

\* void splitgrp(const keyType &key, uint32_t &grp, keyType &keyInGroup)
SplitGrp ==
    /\ \/ pmode = "key" /\ pstep = 0
       \/ pmode = "pair" /\ pstep = 1
    /\ pstep' = pstep + 1
    /\ LET mvcnt == 2 * kmerlength - splitbit
           high == Shr(key, mvcnt, pw, shiftUB)
           lowmask == Shl({0}, mvcnt, pw, shiftUB)
       IN  /\ grp' = GrpOf(high)
           /\ keyInGroup' = key \cap DecBits(lowmask, ArithWidth(pw))
    /\ UNCHANGED <<pw, kmerlength, splitbit, key, orig, pmode, shiftUB,
                   streamVars, codecVars, textVars, humanVars>>

\* void combgrp(keyType &key, uint32_t &grp, keyType &keyInGroup)
CombGrp ==
    /\ \/ pmode = "pair" /\ pstep = 0
       \/ pmode = "key" /\ pstep = 1
    /\ pstep' = pstep + 1
    /\ key' = Shl(grp \cap Bits(pw), 2 * kmerlength - splitbit, pw, shiftUB)
                  \cup keyInGroup
    /\ UNCHANGED <<pw, kmerlength, splitbit, grp, keyInGroup, orig, pmode, shiftUB,
                   streamVars, codecVars, textVars, humanVars>>

NextPartition == SplitGrp \/ CombGrp

SpecPartition == InitPartition /\ [][NextPartition]_vars

\* ------------------------------------------------------------------ writer

\* a write() that flushes after every record
FlushDueEager(c) == c >= 1
\* if (curr == buflen), after curr++
FlushDue(c) == c = buflen

\* a finish() that writes the whole batch area
FinishCountAll(c) == buflen
\* the count finish() passes to fwrite
FinishCount(c) == c

\* curr = 0 in finish()
FinishCursor(c) == 0

\* BinaryKmerWriter::BinaryKmerWriter and the state before the reader exists
InitStream(I) ==
    /\ input \in I
    /\ nw = 0
    /\ wbuf = [j \in {} |-> Uninit]
    /\ wcurr = 0
    /\ wcloses = 0
    /\ file = <<>>
    /\ bulk = <<>>
    /\ rstate = "none"
    /\ rpos = 0
    /\ rbuf = [j \in {} |-> Uninit]
    /\ rcurr = 0
    /\ rmax = 0
    /\ out = Uninit
    /\ ret = "none"
    /\ last = "none"
    /\ got = <<>>
    /\ eofSeen = FALSE
    /\ post = 0
    /\ tail = 0
    /\ wdead = FALSE
    /\ rcloses = 0
    /\ rdead = FALSE

Init ==
    /\ InitStream(Inputs)
    /\ CodecIdle
    /\ PartIdle
    /\ TextIdle
    /\ HumanIdle

readerVars == <<rstate, rpos, rbuf, rcurr, rmax, out, ret, last, got, eofSeen, post>>

\* BinaryKmerWriter::write, called with the next record of the input
Write ==
    /\ ~wdead
    /\ wcloses = 0
    /\ nw < Len(input)
    /\ wcurr < BufSlots
    /\ nw' = nw + 1
    /\ wbuf' = Store(wbuf, wcurr, input[nw + 1])
    /\ IF FlushDue(wcurr + 1)
       THEN /\ file' = file \o FWrite(wbuf', buflen)
            /\ bulk' = Append(bulk, buflen)
            /\ wcurr' = 0
       ELSE /\ wcurr' = wcurr + 1
            /\ UNCHANGED <<file, bulk>>
    /\ UNCHANGED <<input, wcloses, readerVars, codecVars, partVars,
                   lifeVars, textVars, humanVars>>

\* BinaryKmerWriter::finish
Finish ==
    /\ ~wdead
    /\ nw = Len(input)
    /\ wcloses < MaxFinish
    /\ rstate = "none"
    /\ file' = file \o FWrite(wbuf, FinishCount(wcurr))
    /\ wcurr' = FinishCursor(wcurr)
    /\ wcloses' = wcloses + 1
    /\ UNCHANGED <<input, nw, wbuf, bulk, readerVars, codecVars, partVars,
                   lifeVars, textVars, humanVars>>

\* ------------------------------------------------------------------ reader

\* a refill that keeps the cursor
RefillCursorKeep(c) == c
\* curr = 0 after a refill of at least one record
RefillCursor(c) == 0

\* BinaryKmerReader::BinaryKmerReader, on the container the writer finished
OpenReader ==
    /\ wcloses >= 1
    /\ rstate = "none"
    /\ rstate' = "open"
    /\ rcurr' = 0
    /\ rmax' = 0
    /\ rpos' = 0
    /\ UNCHANGED <<input, nw, wbuf, wcurr, wcloses, file, bulk,
                   rbuf, out, ret, last, got, eofSeen, post, codecVars, partVars,
                   lifeVars, textVars, humanVars>>

\* What a slot holds after fread copied the bytes of a cut-off record to it.
Partial == [k |-> -2, v |-> -2]

\* The FILE has not moved past the last whole record: no fread has returned
\* fewer records than it asked for.
TailUnread == ~eofSeen /\ rmax \notin 1 .. buflen - 1

\* fread(buf, sizeof(buf[0]), n, f) reaching the end of a container whose
\* length is not a multiple of the record size: the bytes after the last
\* whole record are copied to the slot after the c records it counts.
FReadPartial(b, c, n) ==
    IF tail > 0 /\ TailUnread /\ c < n THEN Store(b, c, Partial) ELSE b

\* BinaryKmerReader::getNext. The path that copies a record ends without a
\* return statement: what the caller receives there is any boolean.
GetNext ==
    /\ rstate = "open"
    /\ ~rdead
    /\ post < MaxPostEof
    /\ post' = IF eofSeen THEN post + 1 ELSE post
    /\ LET refill == rcurr = rmax
           n == FReadCount(buflen, file, rpos)
           b == IF refill
                THEN FReadPartial(FReadFill(rbuf, buflen, file, rpos), n, buflen)
                ELSE rbuf
           c == IF refill THEN RefillCursor(rcurr) ELSE rcurr
       IN  IF refill /\ n = 0
           THEN /\ rmax' = 0
                /\ ret' = "false"
                /\ last' = "eof"
                /\ eofSeen' = TRUE
                /\ rbuf' = b
                /\ UNCHANGED <<rpos, rcurr, out, got>>
           ELSE /\ c < BufSlots
                /\ rmax' = IF refill THEN n ELSE rmax
                /\ rpos' = IF refill THEN rpos + n ELSE rpos
                /\ rbuf' = b
                /\ \E r \in (IF c \in DOMAIN b THEN {b[c]} ELSE Garbage) :
                       /\ out' = r
                       /\ got' = Append(got, r)
                /\ rcurr' = c + 1
                /\ ret' \in {"true", "false"}
                /\ last' = "copy"
                /\ UNCHANGED eofSeen
    /\ UNCHANGED <<input, nw, wbuf, wcurr, wcloses, file, bulk, rstate, codecVars, partVars,
                   lifeVars, textVars, humanVars>>

\* ~BinaryKmerReader() { fclose(f); }
DestroyReader ==
    /\ rstate = "open"
    /\ ~rdead
    /\ rdead' = TRUE
    /\ rcloses' = rcloses + 1
    /\ UNCHANGED <<input, nw, wbuf, wcurr, wcloses, file, bulk, readerVars,
                   tail, wdead, codecVars, partVars, textVars, humanVars>>

\* BinaryKmerWriter declares no destructor: destroying it writes nothing
\* and closes nothing.
DestroyWriter ==
    /\ ~wdead
    /\ wdead' = TRUE
    /\ UNCHANGED <<input, nw, wbuf, wcurr, wcloses, file, bulk, readerVars,
                   tail, rcloses, rdead, codecVars, partVars, textVars, humanVars>>

Next == Write \/ Finish \/ OpenReader \/ GetNext

Spec == Init /\ [][Next]_vars

\* ------------------------------------------------------------------ stream claims

\* C1: the records getNext copies out, up to the call that finds the refill
\* empty, are the records passed to write, in the order written: while the
\* stream has not ended they are a prefix of the input, and when the end of
\* stream is reached they are the whole input.
C1_StreamRoundTrip ==
    /\ ~eofSeen => /\ Len(got) <= Len(input)
                   /\ got = SubSeq(input, 1, Len(got))
    /\ (eofSeen /\ post = 0) => got = input

C1_Witness ==
    /\ eofSeen /\ post = 0
    /\ Len(input) = 10 * buflen
    /\ input = Distinct(10 * buflen)
    /\ got = input

\* C7: once getNext has returned false on an empty refill, every later call
\* takes the same path: it returns false and copies nothing.
C7_EofTerminal == eofSeen => (last = "eof" /\ ret = "false")

\* C8: getNext returns true whenever it copied a record, and false only on
\* an empty refill.
C8_BooleanResult ==
    /\ last = "copy" => ret = "true"
    /\ ret = "false" => last = "eof"

\* C9: before finish, after k writes the container received k div buflen
\* bulk writes of buflen records each (the first buflen * (k div buflen)
\* records of the input), and the buffer holds the last k mod buflen.
C9_WriterBatches ==
    wcloses = 0 =>
        /\ Len(bulk) = nw \div buflen
        /\ \A i \in 1 .. Len(bulk) : bulk[i] = buflen
        /\ file = SubSeq(input, 1, buflen * (nw \div buflen))
        /\ wcurr = nw % buflen
        /\ 0 <= wcurr /\ wcurr < buflen
        /\ \A j \in 0 .. wcurr - 1 :
               Slot(wbuf, j) = input[buflen * (nw \div buflen) + j + 1]

C9_Witness ==
    /\ wcloses = 0
    /\ nw = 2 * buflen + 1
    /\ Len(bulk) = 2
    /\ wcurr = 1

\* C10: the first finish appends exactly the wcurr buffered records (fewer
\* than buflen) to the container, empties the buffer and closes the output;
\* with an empty buffer it adds nothing; and a container finished with no
\* writes gives no record: the first getNext on it returns false.
C10_Finish ==
    [][/\ (wcloses = 0 /\ wcloses' = 1) =>
            /\ wcurr < buflen
            /\ file' = file \o [i \in 1 .. wcurr |-> Slot(wbuf, i - 1)]
            /\ file' = input
            /\ (wcurr = 0 => file' = file)
            /\ wcurr' = 0
       /\ (Len(input) = 0 /\ rstate = "open" /\ ret = "none" /\ ret' # "none") =>
            /\ file = <<>>
            /\ ret' = "false"
            /\ last' = "eof"
            /\ got' = <<>>]_vars

C10_Witness ==
    /\ Len(input) = 0
    /\ wcloses = 1
    /\ file = <<>>
    /\ rstate = "open"
    /\ eofSeen /\ post = 0
    /\ ret = "false"

\* ------------------------------------------------------------------ codec claims

\* The value of a symbol: A=0, C=1, G=2, T=3.
SymValue(c) == CASE c = "A" -> 0 [] c = "C" -> 1 [] c = "G" -> 2 [] c = "T" -> 3

\* sum over i = 1 .. L of SymValue(s[i]) * 4^(L - i)
RECURSIVE Base4(_, _, _)
Base4(s, i, L) ==
    IF i > L THEN 0 ELSE SymValue(s[i]) * 4 ^ (L - i) + Base4(s, i + 1, L)

\* the decimal number written by characters from .. to of s
RECURSIVE Decimal(_, _, _)
Decimal(s, from, to) ==
    IF from > to THEN 0
    ELSE DigitVal(s[from]) * 10 ^ (to - from) + Decimal(s, from + 1, to)

\* s is a run of L symbols, a white-space separator and a decimal integer
\* (digits, with an optional minus sign)
IsRecordLine(s, L) ==
    /\ L >= 1 /\ L + 2 <= Len(s)
    /\ \A i \in 1 .. L : s[i] \in Syms
    /\ s[L + 1] \in {" ", "\t"}
    /\ LET d == IF s[L + 2] = "-" THEN L + 3 ELSE L + 2
       IN  /\ d <= Len(s)
           /\ \A i \in d .. Len(s) : s[i] \in {"0", "1", "2", "3", "4", "5", "6", "7", "8", "9"}

RecordCount(s, L) ==
    IF s[L + 2] = "-" THEN 0 - Decimal(s, L + 3, Len(s)) ELSE Decimal(s, L + 2, Len(s))

\* C4: on a line made of L symbols (2L within the key width), a separator
\* and a decimal integer C, convert(s, &k, &v) returns true with k the
\* base-4 value of the run, first symbol most significant, and v = C.
C4_ConvertRecord ==
    cvariant = "kv" =>
        \A L \in 1 .. Len(line) :
            (IsRecordLine(line, L) /\ 2 * L <= kw) =>
                /\ cret = "true"
                /\ ToNat(kOut) = Base4(line, 1, L)
                /\ vOut = RecordCount(line, L)

C4_Witness ==
    /\ cvariant = "kv"
    /\ line = <<"G", "T", "C", " ", "1", "0">>
    /\ cret = "true"
    /\ ToNat(kOut) = 45
    /\ vOut = 10

\* C5: on a line whose first character is not A, C, G or T (the empty line
\* and a lowercase letter included) both overloads return false and leave
\* the caller's key and value as they were.
C5_RejectBadStart ==
    (cvariant # "none" /\ (Len(line) = 0 \/ line[1] \notin Syms)) =>
        /\ cret = "false"
        /\ kOut = Prior.k
        /\ vOut = Prior.v

C5_Witness ==
    /\ cvariant = "k"
    /\ line = <<"a", " ", "1">>
    /\ cret = "false"
    /\ kOut = Prior.k

\* C6: on a line that starts with a run of symbols and has no digit after
\* it, convert(s, &k, &v) returns false.
C6_MissingValueFails ==
    (/\ cvariant = "kv"
     /\ Len(line) >= 1 /\ line[1] \in Syms
     /\ \A i \in 1 .. Len(line) : ~IsDigit(line[i])) =>
        cret = "false"

\* ------------------------------------------------------------------ partitioner claims

\* C2: for 0 <= splitbit <= 2 * kmerlength and a key below 4^kmerlength,
\* combgrp applied to what splitgrp made of the key gives the key back.
C2_SplitCombine == (pmode = "key" /\ pstep = 2) => key = orig.key

\* C3: splitgrp gives grp = key >> (2L - B), below 2^B, and keyInGroup =
\* key & ((1 << (2L - B)) - 1), below 2^(2L - B); combgrp of a pair in
\* that range gives a key below 4^L that splitgrp takes back to the pair.
C3_Bijection ==
    LET m == 2 * kmerlength - splitbit
    IN  /\ (pmode = "key" /\ pstep >= 1) =>
              /\ grp = {i - m : i \in {j \in orig.key : j >= m}}
              /\ keyInGroup = {i \in orig.key : i < m}
              /\ grp \subseteq Bits(splitbit)
              /\ keyInGroup \subseteq Bits(m)
        /\ (pmode = "pair" /\ pstep >= 1) => key \subseteq Bits(2 * kmerlength)
        /\ (pmode = "pair" /\ pstep = 2) =>
              (grp = orig.grp /\ keyInGroup = orig.kig)

\* ------------------------------------------------------------------ text reader

\* char buf[1024] of getNext
LineBuf == 1024
\* longest path tried
MaxPathLen == 2
\* largest number of lines in a text file
MaxTextLines == 2
\* largest number of explicit close() calls
MaxCloses == 2

\* keyType of the helper the text reader is given
TextWidth == CHOOSE w \in KeyWidths : \A x \in KeyWidths : w <= x

PathChars == {"f", "\n", "\r"}
Paths(n) == Seqs(PathChars, n)

\* The one file of the file system: fopen finds no other name.
Exists(p) == p = <<"f">>

\* strcpy(buf, fname); if (buf[strlen(buf)-1] == '\n') buf[strlen(buf)-1] = '\0';
\* the string left in buf. For the empty string the byte tested and
\* overwritten is buf[-1], and buf stays empty whatever it holds.
OpenPath(p) ==
    IF p # <<>> /\ p[Len(p)] = "\n" THEN SubSeq(p, 1, Len(p) - 1) ELSE p

\* a line that fills the buffer of fgets before it ends: a record, filler,
\* and the text of another record before the newline
LongLine ==
    <<"A", " ", "1">> \o [i \in 1 .. LineBuf - 4 |-> "a"] \o <<"C", " ", "2", "\n">>

TextLines ==
    {<<"A", " ", "1", "\n">>, <<"G", " ", "7", "\n">>, <<"x", " ", "5", "\n">>,
     <<"T", "\n">>, LongLine}

RECURSIVE Files(_)
Files(n) ==
    IF n = 0 THEN {<<>>}
    ELSE Files(n - 1) \cup {l \o f : l \in TextLines, f \in Files(n - 1)}

\* fgets(buf, n, f) with the FILE at position pos: the position after the
\* call. At most n - 1 characters are read, up to and including a newline.
FGetsEnd(f, pos, n) ==
    LET lim == Min(Len(f), pos + n - 1)
        nls == {q \in pos + 1 .. lim : f[q] = "\n"}
    IN  IF nls = {} THEN lim ELSE CHOOSE q \in nls : \A r \in nls : q <= r

InitTextWith(P, F) ==
    /\ tpath \in P
    /\ tfile \in F
    /\ topened = <<>>
    /\ tf = "none"
    /\ tcloses = 0
    /\ tdead = FALSE
    /\ tpos = 0
    /\ tk = Prior.k
    /\ tv = Prior.v
    /\ tret = "none"
    /\ tlast = "none"
    /\ ttrunc = FALSE
    /\ tfailed = FALSE
    /\ tnull = FALSE
    /\ toob = FALSE

InitText ==
    /\ InitTextWith(Paths(MaxPathLen), Files(MaxTextLines))
    /\ StreamIdle
    /\ CodecIdle
    /\ PartIdle
    /\ HumanIdle

\* KmerFileReader(fname, _helper): no check of what fopen returned
TextOpen ==
    /\ tf = "none"
    /\ topened' = OpenPath(tpath)
    /\ toob' = (tpath = <<>>)
    /\ tf' = IF Exists(OpenPath(tpath)) THEN "open" ELSE "null"
    /\ UNCHANGED <<tpath, tcloses, tdead, tfile, tpos, tk, tv, tret, tlast,
                   ttrunc, tfailed, tnull>>
    /\ UNCHANGED <<streamVars, codecVars, partVars, humanVars>>

\* bool getNext(keyType *T, valueType *V). fgets with the null handle is
\* undefined: the call is recorded and either result can come back.
TextGetNext ==
    /\ tf # "none"
    /\ ~tdead
    /\ tcloses = 0
    /\ IF tf = "null"
       THEN /\ tnull' = TRUE
            /\ tret' \in {"true", "false"}
            /\ tlast' = "null"
            /\ UNCHANGED <<tpos, tk, tv, ttrunc, tfailed>>
       ELSE /\ UNCHANGED tnull
            /\ IF tpos = Len(tfile)
               THEN /\ tret' = "false"
                    /\ tlast' = "eof"
                    /\ ttrunc' = FALSE
                    /\ UNCHANGED <<tpos, tk, tv, tfailed>>
               ELSE LET e == FGetsEnd(tfile, tpos, LineBuf)
                        buf == SubSeq(tfile, tpos + 1, e)
                    IN  /\ tpos' = e
                        /\ ttrunc' = (tfile[e] # "\n" /\ e < Len(tfile))
                        /\ IF StartsRun(CharAt(buf, 1))
                           THEN /\ tk' = ScanRun(buf, 1, {}, TextWidth).ret
                                /\ tv' \in ScannedValues(buf,
                                               ScanRun(buf, 1, {}, TextWidth).i)
                                /\ tret' = "true"
                                /\ tlast' = "record"
                                /\ UNCHANGED tfailed
                           ELSE /\ tret' = "false"
                                /\ tlast' = "reject"
                                /\ tfailed' = TRUE
                                /\ UNCHANGED <<tk, tv>>
    /\ UNCHANGED <<tpath, topened, tf, tcloses, tdead, tfile, toob>>
    /\ UNCHANGED <<streamVars, codecVars, partVars, humanVars>>

\* fclose(f): with the null handle the call is undefined and recorded
FClose ==
    IF tf = "null"
    THEN tnull' = TRUE /\ UNCHANGED tcloses
    ELSE tcloses' = tcloses + 1 /\ UNCHANGED tnull

\* void close()
TextClose ==
    /\ tf # "none"
    /\ ~tdead
    /\ tcloses < MaxCloses
    /\ FClose
    /\ UNCHANGED <<tpath, topened, tf, tdead, tfile, tpos, tk, tv, tret, tlast,
                   ttrunc, tfailed, toob>>
    /\ UNCHANGED <<streamVars, codecVars, partVars, humanVars>>

\* ~KmerFileReader() { close(); }
TextDestroy ==
    /\ tf # "none"
    /\ ~tdead
    /\ tdead' = TRUE
    /\ FClose
    /\ UNCHANGED <<tpath, topened, tf, tfile, tpos, tk, tv, tret, tlast,
                   ttrunc, tfailed, toob>>
    /\ UNCHANGED <<streamVars, codecVars, partVars, humanVars>>

NextText == TextOpen \/ TextGetNext \/ TextClose \/ TextDestroy

SpecText == InitText /\ [][NextText]_vars

\* ------------------------------------------------------------------ lifetimes

\* One object of each of the three classes, from construction to destruction.
InitLifecycle ==
    /\ InitTextWith({<<"f">>, <<"f", "\n">>}, {<<"A", " ", "1", "\n">>})
    /\ InitStream({Distinct(1)})
    /\ CodecIdle
    /\ PartIdle
    /\ HumanIdle

NextLifecycle ==
    \/ TextOpen \/ TextGetNext \/ TextClose \/ TextDestroy
    \/ Write \/ Finish \/ DestroyWriter
    \/ OpenReader \/ GetNext \/ DestroyReader

SpecLifecycle == InitLifecycle /\ [][NextLifecycle]_vars

\* C11: the handle of every reader and writer is released exactly once: it
\* is never closed a second time by a repeated close or finish or by the
\* destructor, and an object that was destroyed has released its handle.
C11_ReleasedOnce ==
    /\ tcloses <= 1 /\ ((tdead /\ tf = "open") => tcloses = 1)
    /\ wcloses <= 1 /\ (wdead => wcloses = 1)
    /\ rcloses <= 1 /\ (rdead => rcloses = 1)

\* ------------------------------------------------------------------ text reader claims

\* C13: a line that fails to parse gives an outcome other than the one of
\* the clean end of input (getNext returning false), and once a line has
\* failed no getNext returns a record.
C13_StopAndError ==
    /\ tlast = "reject" => tret # "false"
    /\ tfailed => tlast # "record"

\* C14: a getNext whose line did not fit the buffer returns no record parsed
\* from the part that fitted, and the getNext after it returns no record
\* parsed from the rest of that line.
C14_LongLineRejected ==
    [][(ttrunc' => tlast' # "record") /\ (ttrunc => tlast' # "record")]_vars

\* C15: when the path cannot be opened no later step calls a stdio function
\* with the null handle.
C15_NoNullHandleUse == ~tnull

\* the supplied path with one trailing newline or carriage return removed
Normalized(p) ==
    IF p # <<>> /\ p[Len(p)] \in {"\n", "\r"} THEN SubSeq(p, 1, Len(p) - 1) ELSE p

\* C16: the path passed to fopen is the supplied string with exactly one
\* trailing newline or carriage return removed if it ends in one, and the
\* supplied string otherwise, for every string, the empty one included
\* (computed without reading outside the string).
C16_PathNormalized == tf # "none" => (topened = Normalized(tpath) /\ ~toob)

\* ------------------------------------------------------------------ cut-off container

\* largest number of bytes after the last whole record of a container
MaxTail == 2

\* A reader about to be constructed on a container that was not written by
\* BinaryKmerWriter: some whole records, then tail bytes of a cut-off one.
InitContainer ==
    /\ input \in {Distinct(M) : M \in Lens}
    /\ file = input
    /\ tail \in 0 .. MaxTail
    /\ nw = Len(input)
    /\ wbuf = [j \in {} |-> Uninit]
    /\ wcurr = 0
    /\ wcloses = 1
    /\ bulk = <<>>
    /\ rstate = "none"
    /\ rpos = 0
    /\ rbuf = [j \in {} |-> Uninit]
    /\ rcurr = 0
    /\ rmax = 0
    /\ out = Uninit
    /\ ret = "none"
    /\ last = "none"
    /\ got = <<>>
    /\ eofSeen = FALSE
    /\ post = 0
    /\ wdead = FALSE
    /\ rcloses = 0
    /\ rdead = FALSE
    /\ CodecIdle
    /\ PartIdle
    /\ TextIdle
    /\ HumanIdle

NextContainer == OpenReader \/ GetNext \/ DestroyReader

SpecContainer == InitContainer /\ [][NextContainer]_vars

\* C12: on a container whose length is not a multiple of the record size,
\* the getNext that finds no further whole record does not return what it
\* returns at a clean end of stream (false), and no getNext copies the
\* trailing bytes out as a record.
C12_ShortReadReported ==
    tail > 0 => /\ last = "eof" => ret # "false"
                /\ out # Partial

\* C19: while a reader exists 0 <= curr <= max <= buflen, and a record that
\* was copied out came from a slot below max (the slot curr - 1 after the
\* copy), one the most recent refill filled.
C19_ReaderCursor ==
    rstate = "open" =>
        /\ 0 <= rcurr /\ rcurr <= rmax /\ rmax <= buflen
        /\ last = "copy" => (rcurr - 1 < rmax /\ rcurr - 1 \in DOMAIN rbuf)

\* ------------------------------------------------------------------ any parameters

\* the largest uint8_t
ByteMax == 255

\* the values of kmerlength tried for a key of w bits
AnyKmerLengths(w) == {0, 1, w \div 2, w \div 2 + 1, ByteMax}

\* the values of splitbit tried for a kmerlength
AnySplitBits(L) == {0, 1, Min(2 * L + 1, ByteMax), ByteMax}

\* The shift count 2 * kmerlength - splitbit is one the language defines.
ShiftDefined(w, L, B) == 0 <= 2 * L - B /\ 2 * L - B < ArithWidth(w)

\* ConstantLengthKmerHelper(_kmerlength, _splitbit) with any two uint8_t
\* values: the constructor stores them unchecked
InitPartitionAny ==
    /\ pw \in KeyWidths
    /\ kmerlength \in AnyKmerLengths(pw)
    /\ splitbit \in AnySplitBits(kmerlength)
    /\ pmode \in {"key", "pair"}
    /\ key \in (IF pmode = "key" THEN Few(pw) ELSE {{}})
    /\ grp \in (IF pmode = "pair" THEN {{}, {0}, Bits(GrpBits)} ELSE {{}})
    /\ keyInGroup \in (IF pmode = "pair" THEN {{}, {0}, Bits(pw)} ELSE {{}})
    /\ shiftUB \in (IF ShiftDefined(pw, kmerlength, splitbit)
                    THEN {"wrap"} ELSE ShiftModes)
    /\ orig = [key |-> key, grp |-> grp, kig |-> keyInGroup]
    /\ pstep = 0
    /\ StreamIdle
    /\ CodecIdle
    /\ TextIdle
    /\ HumanIdle

SpecPartitionAny == InitPartitionAny /\ [][NextPartition]_vars

\* C17: splitgrp and combgrp only run on a helper whose parameters satisfy
\* 0 <= splitbit <= 2 * kmerlength <= key width, and so never shift by a
\* negative count or by the width of the operand or more.
C17_ParamsInRange ==
    pstep > 0 => /\ 0 <= splitbit
                 /\ splitbit <= 2 * kmerlength
                 /\ 2 * kmerlength <= pw
                 /\ ShiftDefined(pw, kmerlength, splitbit)

\* ------------------------------------------------------------------ human

\* the thresholds and divisors of human()
Kilo == 1024
TenKilo == 10240
Mega == 1048576
TenMega == 10485760
\* 1048576 << 10, and 1 << 30
Giga == Mega * Kilo
\* std::setprecision(2)
KiloPrecision == 2
\* the precision of a stream that was not given one
DefaultPrecision == 6
\* the arguments tried are at most MaxDelta away from a mark
MaxDelta == 12

\* the marks: the powers of two, three times them, and the thresholds
HumanMarks ==
    {0, TenKilo, TenMega} \cup {2 ^ e : e \in 0 .. 30} \cup {3 * 2 ^ e : e \in 0 .. 29}

HumanWords ==
    {w \in {t + d : t \in HumanMarks, d \in -MaxDelta .. MaxDelta} : w >= 0}

\* ss << n for an integer n
RECURSIVE ToDec(_)
ToDec(n) ==
    IF n < 10 THEN <<DigitChars[n + 1]>>
    ELSE Append(ToDec(n \div 10), DigitChars[(n % 10) + 1])

\* One more decimal digit of rem / 2^s: the digit floor(10 * rem / 2^s) and
\* the remainder (10 * rem) mod 2^s, computed as 8 * rem + 2 * rem so that
\* no intermediate exceeds 2^s.
FracStep(rem, s) ==
    LET a == rem \div 2 ^ (s - 3)
        ra == rem % 2 ^ (s - 3)
        b == rem \div 2 ^ (s - 1)
        rb == rem % 2 ^ (s - 1)
        f == 4 * ra + rb
    IN  [digit |-> a + b + f \div 2 ^ (s - 1), rem |-> 2 * (f % 2 ^ (s - 1))]

\* n more digits appended to the decimal number m
RECURSIVE FracDigits(_, _, _, _)
FracDigits(rem, s, n, m) ==
    IF n = 0 THEN [m |-> m, rem |-> rem]
    ELSE FracDigits(FracStep(rem, s).rem, s, n - 1, 10 * m + FracStep(rem, s).digit)

\* word * 1.0 / 2^s (exact in a double) rounded to p significant digits,
\* for a quotient from 1 to 10: the digits as a number. The conversion
\* rounds to nearest, a tie to the even digit.
Significant(word, s, p) ==
    LET fd == FracDigits(word % 2 ^ s, s, p - 1, word \div 2 ^ s)
        half == 2 ^ (s - 1)
    IN  IF fd.rem > half \/ (fd.rem = half /\ fd.m % 2 = 1) THEN fd.m + 1 ELSE fd.m

RECURSIVE StripZeros(_)
StripZeros(d) ==
    IF d # <<>> /\ d[Len(d)] = "0" THEN StripZeros(SubSeq(d, 1, Len(d) - 1)) ELSE d

\* ss << x for a double x from 1 to 10 at precision p, m being its p
\* significant digits: fixed notation, trailing zeros and a bare decimal
\* point removed
FormatG(m, p) ==
    LET frac == StripZeros([i \in 1 .. p - 1 |->
                               DigitChars[((m \div 10 ^ (p - 1 - i)) % 10) + 1]])
    IN  ToDec(m \div 10 ^ (p - 1)) \o (IF frac = <<>> THEN <<>> ELSE <<".">> \o frac)

\* a first test that sends 1024 to the next branch
IntegerSmallStrict(word) == word < Kilo
\* if (word <= 1024)
IntegerSmall(word) == word <= Kilo

\* std::string human(uint64_t word)
Human(word) ==
    IF IntegerSmall(word) THEN ToDec(word)
    ELSE IF word <= TenKilo
    THEN Append(FormatG(Significant(word, 10, KiloPrecision), KiloPrecision), "K")
    ELSE IF word <= Mega THEN Append(ToDec(word \div Kilo), "K")
    ELSE IF word <= TenMega
    THEN Append(FormatG(Significant(word, 20, DefaultPrecision), DefaultPrecision), "M")
    ELSE IF word <= Giga THEN Append(ToDec(word \div Mega), "M")
    ELSE Append(FormatG(Significant(word, 30, DefaultPrecision), DefaultPrecision), "G")

InitHuman ==
    /\ hword \in HumanWords
    /\ hout = <<>>
    /\ StreamIdle
    /\ CodecIdle
    /\ PartIdle
    /\ TextIdle

\* a call human(hword)
HumanCall ==
    /\ hout = <<>>
    /\ hout' = Human(hword)
    /\ UNCHANGED <<hword, streamVars, codecVars, partVars, textVars>>

NextHuman == HumanCall

SpecHuman == InitHuman /\ [][NextHuman]_vars

\* the first n characters of s are the decimal digits of a number, written
\* without a leading zero
IsNumeral(s, n) ==
    /\ n >= 1
    /\ n <= Len(s)
    /\ \A i \in 1 .. n : IsDigit(s[i])
    /\ n > 1 => s[1] # "0"

\* C18: human(n) is the decimal digits of n for n <= 1024, the digits of
\* floor(n / 1024) followed by "K" for 10240 < n <= 1048576, and the digits
\* of floor(n / 1048576) followed by "M" for 10485760 < n <= 1073741824; so
\* human(0) = "0", human(1024) = "1024" and human(1048576) = "1024K".
C18_HumanTable ==
    hout # <<>> =>
        /\ hword <= 1024 =>
               /\ IsNumeral(hout, Len(hout))
               /\ Decimal(hout, 1, Len(hout)) = hword
        /\ (10240 < hword /\ hword <= 1048576) =>
               /\ hout[Len(hout)] = "K"
               /\ IsNumeral(hout, Len(hout) - 1)
               /\ Decimal(hout, 1, Len(hout) - 1) = hword \div 1024
        /\ (10485760 < hword /\ hword <= 1073741824) =>
               /\ hout[Len(hout)] = "M"
               /\ IsNumeral(hout, Len(hout) - 1)
               /\ Decimal(hout, 1, Len(hout) - 1) = hword \div 1048576
        /\ hword = 0 => hout = <<"0">>
        /\ hword = 1024 => hout = <<"1", "0", "2", "4">>
        /\ hword = 1048576 => hout = <<"1", "0", "2", "4", "K">>

C18_Witness ==
    /\ hword = 1048576
    /\ hout = <<"1", "0", "2", "4", "K">>

\* ------------------------------------------------------------------ long runs

\* longest run of symbols at the head of a line
MaxLongRun == 5

\* the lines: a run of 1 to n symbols, alone or followed by a count
LongLines(n) ==
    {r \o t : r \in Seqs(Syms, n) \ {<<>>}, t \in {<<>>, <<" ", "1">>}}

\* A helper constructed with some kmerlength, and a line whose run can be
\* longer than that. convert reads neither kmerlength nor splitbit.
InitLongRun ==
    /\ line \in LongLines(MaxLongRun)
    /\ kw = CHOOSE w \in KeyWidths : \A x \in KeyWidths : w <= x
    /\ kOut = Prior.k
    /\ vOut = Prior.v
    /\ cret = "none"
    /\ cvariant = "none"
    /\ pw = kw
    /\ kmerlength \in 1 .. Min(MaxSmallL, kw \div 2)
    /\ splitbit = 0
    /\ key = {}
    /\ grp = {}
    /\ keyInGroup = {}
    /\ orig = [key |-> {}, grp |-> {}, kig |-> {}]
    /\ pmode = "none"
    /\ shiftUB = "wrap"
    /\ pstep = 0
    /\ StreamIdle
    /\ TextIdle
    /\ HumanIdle

SpecLongRun == InitLongRun /\ [][NextCodec]_vars

\* the length of the run of symbols at the head of s
RECURSIVE RunLength(_, _)
RunLength(s, n) == IF n < Len(s) /\ s[n + 1] \in Syms THEN RunLength(s, n + 1) ELSE n

\* C20: on a line that starts with a run of n >= 1 symbols convert returns
\* true whatever kmerlength is, with the key the base-4 value of the whole
\* run modulo 2^w; when n > w/2 that is the base-4 value of the last w/2
\* symbols of the run.
C20_LongRun ==
    (cvariant # "none" /\ RunLength(line, 0) >= 1) =>
        LET n == RunLength(line, 0)
        IN  /\ cret = "true"
            /\ ToNat(kOut) = Base4(line, 1, n) % 2 ^ kw
            /\ 2 * n > kw => ToNat(kOut) = Base4(line, n - kw \div 2 + 1, n)

C20_Witness ==
    /\ cvariant = "kv"
    /\ line = <<"T", "A", "C", "G", "T", " ", "1">>
    /\ kmerlength = 2
    /\ cret = "true"
    /\ ToNat(kOut) = 27

====
